---- MODULE Spec2Model ----
(***************************************************************************)
(* Client-side state machine of the EduPredict web application.            *)
(*                                                                         *)
(* Two machines share the page.  `Spec` is the investment simulator of the  *)
(* main application script, with the rest of the page left as loaded;      *)
(* `PageSpec` is the navigation of the main application script together    *)
(* with the analytics dashboard of dashboard.js, with the simulator taken  *)
(* only through initSimulator, which the initial route waits for.          *)
(*                                                                         *)
(* The simulator: the `state` object, the INVESTMENT_CONFIG table, the     *)
(* handlers                                                                *)
(* handleDepartmentChange, handleMunicipalityChange, handleLoadData,       *)
(* handleInvestment, updatePrediction, displayResults, handleReset,        *)
(* resetInvestments and updateInvestmentLevels, and the POST /predict      *)
(* requests of api-client.js that are in flight between a handler and its  *)
(* continuation.                                                           *)
(*                                                                         *)
(* JavaScript is single threaded: a handler runs to its first await, and   *)
(* the continuation after the await runs when the response arrives.  Each  *)
(* of these two pieces is one action.  Responses of different requests     *)
(* may arrive in any order.                                                *)
(*                                                                         *)
(* Real-valued model inputs are kept as integers scaled by 100             *)
(* (classroom_density 30.0 is 3000, improvement -2.0 is -200).             *)
(***************************************************************************)
EXTENDS Integers, Sequences, FiniteSets, Bags, TLC

\* ---------------------------------------------------------------------------
\* Bounds of the model
\* ---------------------------------------------------------------------------

\* Largest number of POST /predict requests in flight at once.
MaxPending == 2

\* Largest number of POST /predict requests issued in one page lifetime.
MaxRequests == 5

\* Largest number of hashchange events queued at once.
MaxHashEvents == 1

\* Largest number of three-way analytics fetches issued in one page lifetime.
MaxInits == 2

\* Longest department list the analytics service sends.
MaxDepartments == 3

\* Simulator requests issued in a session that also uses the dashboard.
MaxJointRequests == 2

\* ---------------------------------------------------------------------------
\* Program constants
\* ---------------------------------------------------------------------------

\* state.budget at construction and after handleReset.
DefaultBudget == 10000

\* Level at which updateInvestmentLevels disables a button.
MaxLevel == 3

\* The four investment kinds and their configuration; improvement is
\* scaled by 100.  The buttons' data-cost attributes carry the same costs.
INVESTMENT_CONFIG ==
    [ infrastructure |-> [cost |-> 3000, parameter |-> "primaria_to_media_ratio", improvement |-> 5],
      quality        |-> [cost |-> 1500, parameter |-> "repitencia_lag_1",        improvement |-> -50],
      coverage       |-> [cost |-> 1000, parameter |-> "over_age_gap",            improvement |-> -100],
      staffing       |-> [cost |-> 4000, parameter |-> "classroom_density",       improvement |-> -200] ]

Kinds == DOMAIN INVESTMENT_CONFIG

\* parseInt(button.dataset.cost) of the invest button of kind k.
dataCost(k) == INVESTMENT_CONFIG[k].cost

\* ---------------------------------------------------------------------------
\* The prediction service
\* ---------------------------------------------------------------------------

\* Municipalities known to the service.
Municipalities == {"Quibdo"}

\* Value of the municipality <select>: a municipality or the placeholder "".
MunicipalityOptions == Municipalities \cup {""}

AdjustableParameters == { INVESTMENT_CONFIG[k].parameter : k \in Kinds }

\* Unadjusted model inputs of a municipality (scaled by 100).
BaseInputs(m) ==
    [ primaria_to_media_ratio |-> 80, repitencia_lag_1 |-> 300,
      over_age_gap |-> 500, classroom_density |-> 3000 ]

\* The body of a 2xx answer to a request: the inputs the model was run
\* with are the municipality's own, overridden by the scenario adjustments.
ServerPredict(req) ==
    [ municipality_name |-> req.municipality_name,
      input_parameters  |->
          [ p \in AdjustableParameters |->
              IF p \in DOMAIN req.scenario_adjustments
              THEN req.scenario_adjustments[p]
              ELSE BaseInputs(req.municipality_name)[p] ] ]

\* The service answers 2xx only for a municipality it knows.
ServerCanAnswer(req) == req.municipality_name \in Municipalities

\* ---------------------------------------------------------------------------
\* State
\* ---------------------------------------------------------------------------

VARIABLES
    budget,               \* state.budget
    investments,          \* state.investments: kind -> level
    selectedMunicipality, \* state.selectedMunicipality ("" when null or empty)
    baseline,             \* state.baseline: << >> when null, else <<prediction>>
    currentPrediction,    \* state.currentPrediction: << >> when null
    btnDisabled,          \* kind -> disabled attribute of its invest button
    loadDisabled,         \* disabled attribute of the load button
    muniSelectDisabled,   \* disabled attribute of the municipality <select>
    investmentsSection,   \* TRUE once #investmentsSection is displayed
    shown,                \* the prediction whose figures the stat tiles show
    errorMessage,         \* text of #errorMessage when displayed, else ""
    loading,              \* #loadingIndicator is displayed
    pending,              \* bag of the POST /predict requests in flight
    simInit,              \* progress of initSimulator
    requestsIssued,       \* number of POST /predict requests issued so far
    lastEvent,            \* the event handled by the last step (history)
    AppState,             \* AppState: [currentView, dashboardLoaded]
    hash,                 \* window.location.hash without its '#'
    visible,              \* the views whose element is displayed
    activeNav,            \* the data-view values of the nav items marked active
    hashEvents,           \* number of hashchange events queued
    routed,               \* init() has handled the initial route
    Dashboard,            \* Dashboard: [data, charts, loaded, selectedDepartment]
    inits,                \* bag of the three-way fetches issued, with their answers
    filters,              \* the history fetches of filterByDepartment in flight
    kpis,                 \* contents of the four KPI cards
    departmentList,       \* #departmentList: << >> or <<[items, selected]>>
    titles,               \* scope named by the header and the chart titles
    dashboardLoading,     \* #dashboardLoading is displayed
    dashboardError,       \* text of #dashboardError when displayed, else ""
    interactive,          \* .view-dashboard takes pointer events
    currentLanguage,      \* currentLanguage of the translations module
    storedLanguage,       \* localStorage item 'language', "" when absent
    langButton            \* text of #currentLang, in lower case

\* The simulator's variables.
simVars == << budget, investments, selectedMunicipality, baseline, currentPrediction,
              btnDisabled, loadDisabled, muniSelectDisabled, investmentsSection,
              shown, errorMessage, loading, pending, simInit, requestsIssued >>

\* The navigation's variables.
navVars == << AppState, hash, visible, activeNav, hashEvents, routed >>

\* The dashboard's variables.
dashVars == << Dashboard, inits, filters, kpis, departmentList, titles,
               dashboardLoading, dashboardError, interactive >>

\* The translations' variables.
langVars == << currentLanguage, storedLanguage, langButton >>

vars == << simVars, lastEvent, navVars, dashVars, langVars >>

simState == << budget, investments, selectedMunicipality, baseline, currentPrediction >>

NoInvestments == [ k \in Kinds |-> 0 ]

Event(type, kind, outcome) == [ type |-> type, kind |-> kind, outcome |-> outcome ]

\* ---------------------------------------------------------------------------
\* Helpers of the handlers
\* ---------------------------------------------------------------------------

\* The test `state.budget < cost` of handleInvestment, repeated by
\* updateInvestmentLevels for the button state.
InsufficientBudgetNever(b, c) == FALSE

InsufficientBudget(b, c) == b < c

\* updateInvestmentLevels: the disabled attribute each invest button gets
\* for the given levels and budget.
updateInvestmentLevelsOffByOne(inv, b) ==
    [ k \in Kinds |-> inv[k] > MaxLevel \/ InsufficientBudget(b, dataCost(k)) ]

updateInvestmentLevels(inv, b) ==
    [ k \in Kinds |-> inv[k] >= MaxLevel \/ InsufficientBudget(b, dataCost(k)) ]

\* updatePrediction: the adjustments object built from the levels and the
\* baseline; its domain is empty when no level is above 0, and then the
\* request carries no scenario_adjustments.
AdjustmentsForAllKinds(inv, base) ==
    [ p \in AdjustableParameters |->
        LET k == CHOOSE kk \in Kinds : INVESTMENT_CONFIG[kk].parameter = p
        IN  base.input_parameters[p] + INVESTMENT_CONFIG[k].improvement * inv[k] ]

Adjustments(inv, base) ==
    LET used == { k \in Kinds : inv[k] > 0 }
    IN  [ p \in { INVESTMENT_CONFIG[k].parameter : k \in used } |->
            LET k == CHOOSE kk \in used : INVESTMENT_CONFIG[kk].parameter = p
            IN  base.input_parameters[p] + INVESTMENT_CONFIG[k].improvement * inv[k] ]

\* api.predictDropout: the request put in flight.  Two fields are
\* bookkeeping of the model: op names the caller ("load" for handleLoadData
\* from the load button, "reload" for handleLoadData from handleReset,
\* "predict" for updatePrediction), and latest is TRUE for the request
\* issued last.
Request(op, m, adj) ==
    [ op |-> op, municipality_name |-> m, scenario_adjustments |-> adj, latest |-> TRUE ]

Superseded(req) == [ req EXCEPT !.latest = FALSE ]

\* The requests in flight once req is issued: those already in flight are
\* no longer the latest.
Issue(req) ==
    LET old == BagToSet(pending)
        now == { Superseded(r) : r \in old }
    IN  [ r \in now |->
            LET from == { q \in old : Superseded(q) = r }
            IN  (IF r \in from THEN pending[r] ELSE 0)
                + (IF [ r EXCEPT !.latest = TRUE ] \in from
                   THEN pending[[ r EXCEPT !.latest = TRUE ]] ELSE 0) ]
        (+) SetToBag({req})

\* The bounds leave room for one more request.
CanIssue == BagCardinality(pending) < MaxPending /\ requestsIssued < MaxRequests

\* The requests in flight once req has been answered.
Remove(bag, req) == bag (-) SetToBag({req})

\* The adjustments of a request that carries none (scenarioAdjustments null).
NoAdjustments == [ p \in {} |-> 0 ]

\* ---------------------------------------------------------------------------
\* The analytics service
\* ---------------------------------------------------------------------------

\* null, as the value of Dashboard.selectedDepartment and of a department
\* code: the national scope.
Null == "null"

\* GET /analytics/national.  Percentages are scaled by 100, ratios by 10000.
NationalStats ==
    [ current_year |-> 2024, dropout_rate |-> 510, total_students |-> 9000000,
      year_over_year_change |-> -30, funnel_efficiency |-> 8532 ]

\* GET /analytics/departments: the list, in the order the service sends it.
DepartmentStats ==
    << [ code |-> "05", name |-> "Antioquia",  dropout_rate |-> 450 ],
       [ code |-> "27", name |-> "Choco",      dropout_rate |-> 890 ],
       [ code |-> "44", name |-> "La Guajira", dropout_rate |-> 720 ] >>

DepartmentCodes == { DepartmentStats[i].code : i \in DOMAIN DepartmentStats }

\* The codes of a department list.
CodesOf(list) == { list[i].code : i \in DOMAIN list }

\* Dropout rates a department may have: exactly 3.00, exactly 6.00 and 8.90.
Rates == {300, 600, 890}

\* The code of the i-th department of a list the service may send.
CodeAt(i) == << "08", "27", "44", "05", "11", "13" >>[i]

\* The department lists the service may send: up to MaxDepartments
\* departments, each with any of the rates, equal rates included.
DepartmentLists ==
    UNION { { [ i \in 1..n |-> [ code |-> CodeAt(i), name |-> CodeAt(i),
                                 dropout_rate |-> r[i] ] ] : r \in [ 1..n -> Rates ] } :
            n \in 0..MaxDepartments }

\* GET /analytics/history[?department_code=scope]: two points for the nation
\* and for 27, a single point for 05, none for 44.
HistoricalTrends(scope) ==
    [ department_code |-> scope,
      data |->
        IF scope = Null
        THEN << [ year |-> 2023, dropout_rate |-> 540, students |-> 9100000, funnel_ratio |-> 8410 ],
                [ year |-> 2024, dropout_rate |-> 510, students |-> 9000000, funnel_ratio |-> 8532 ] >>
        ELSE IF scope = "27"
        THEN << [ year |-> 2023, dropout_rate |-> 910, students |-> 120000, funnel_ratio |-> 6100 ],
                [ year |-> 2024, dropout_rate |-> 890, students |-> 118000, funnel_ratio |-> 6250 ] >>
        ELSE IF scope = "05"
        THEN << [ year |-> 2024, dropout_rate |-> 450, students |-> 1300000, funnel_ratio |-> 9010 ] >>
        ELSE << >> ]

\* ---------------------------------------------------------------------------
\* The API client: the analytics operations
\* ---------------------------------------------------------------------------

AnalyticsOperations ==
    {"getNationalAnalytics", "getDepartmentAnalytics", "getHistoricalTrends"}

\* The operations of the client the page calls with a body that may carry a
\* detail: the analytics operations and predictDropout.
ApiOperations == AnalyticsOperations \cup {"predictDropout"}

\* What fetch may meet: a response with a status and a JSON body whose
\* detail is "" when it carries none, or no response at all (the network
\* is down, the name does not resolve, the connection is refused).
NoResponse == [ status |-> 0, detail |-> "" ]

Statuses == {200, 201, 400, 401, 404, 422, 500, 502, 503}

Responses ==
    { [ status |-> st, detail |-> d ] : st \in Statuses, d \in {"", "Not found"} }
        \cup {NoResponse}

\* The message of the TypeError fetch rejects with when there is no
\* response: it is the browser's.
BrowserMessages ==
    {"Failed to fetch", "NetworkError when attempting to fetch resource.", "Load failed"}

\* response.ok
ResponseOk(response) == response.status \in 200..299

\* The scope the address of getHistoricalTrends asks for: the query
\* parameter is added only for a truthy code.
HistoryScopeNever(departmentCode) == Null

HistoryScope(departmentCode) ==
    IF departmentCode = Null \/ departmentCode = "" THEN Null ELSE departmentCode

\* The address an operation fetches: its path and the department_code of
\* its query (Null when it has none).
ApiUrl(operation, departmentCode) ==
    IF operation = "getNationalAnalytics" THEN << "/analytics/national", Null >>
    ELSE IF operation = "getDepartmentAnalytics" THEN << "/analytics/departments", Null >>
    ELSE IF operation = "predictDropout" THEN << "/predict", Null >>
    ELSE << "/analytics/history", HistoryScope(departmentCode) >>

\* The body the service sends for an address.
Served(url) ==
    IF url[1] = "/analytics/national" THEN NationalStats
    ELSE IF url[1] = "/analytics/departments"
    THEN [ departments |-> DepartmentStats, count |-> Len(DepartmentStats) ]
    ELSE IF url[1] = "/predict"
    THEN ServerPredict(Request("load", CHOOSE m \in Municipalities : TRUE, NoAdjustments))
    ELSE HistoricalTrends(url[2])

\* The message of the Error an operation throws on a response that is not ok.
FailureMessage(operation) ==
    IF operation = "getNationalAnalytics" THEN "Failed to fetch national analytics"
    ELSE IF operation = "getDepartmentAnalytics" THEN "Failed to fetch department analytics"
    ELSE "Failed to fetch historical trends"

\* The message of the Error predictDropout throws on a response that is not
\* ok: `error.detail || 'Prediction failed'`.
PredictionFailure(response) ==
    IF response.detail # "" THEN response.detail ELSE "Prediction failed"

\* How the promise of an operation settles: rejected by fetch itself when
\* there is no response, rejected with the operation's own Error when the
\* response is not ok, else fulfilled with the parsed body.
Settlement(operation, departmentCode, response, browserMessage) ==
    IF response = NoResponse
    THEN [ rejected |-> TRUE, name |-> "TypeError", message |-> browserMessage ]
    ELSE IF ~ResponseOk(response)
    THEN [ rejected |-> TRUE, name |-> "Error",
           message |-> IF operation = "predictDropout" THEN PredictionFailure(response)
                       ELSE FailureMessage(operation) ]
    ELSE [ rejected |-> FALSE, value |-> Served(ApiUrl(operation, departmentCode)) ]

\* ---------------------------------------------------------------------------
\* Translations: the current language and its persisted preference
\* ---------------------------------------------------------------------------

\* The keys of the translations table.
SupportedLanguages == {"en", "es"}

\* Codes switchLanguage may be called with, and values the persisted
\* preference may hold ("" when the item is absent).
LanguageCodes == SupportedLanguages \cup {"fr"}

StoredPreferences == LanguageCodes \cup {""}

\* Texts the markup may give the #currentLang button, in lower case.
MarkupLanguages == SupportedLanguages

\* localStorage.getItem('language') || 'en'
SavedLanguage(stored) == IF stored = "" THEN "en" ELSE stored

\* The guard of switchLanguage: translations[lang] is defined.
Translated(lang) == lang \in SupportedLanguages

\* The translations' state after switchLanguage(lang): an unsupported code
\* returns before anything is written.
Switched(language, lang) ==
    IF ~Translated(lang) THEN language
    ELSE [ current |-> lang, stored |-> lang, button |-> lang ]

\* The translations once the module is evaluated with the given persisted
\* preference (currentLanguage takes it, or 'en' when absent) and init()
\* has called initLanguage, which switches to the saved language.
LanguageInit(preference, markup) ==
    LET evaluated == [ current |-> SavedLanguage(preference), stored |-> preference,
                       button |-> markup ]
        language  == Switched(evaluated, SavedLanguage(preference))
    IN  /\ currentLanguage = language.current
        /\ storedLanguage = language.stored
        /\ langButton = language.button

\* A first visit: no persisted preference, the button reading EN.
DefaultLanguage == LanguageInit("", "en")

\* ---------------------------------------------------------------------------
\* Initial state: the page as loaded, init() not yet past initSimulator
\* ---------------------------------------------------------------------------

\* AppState.views
Views == {"landing", "dashboard", "simulator"}

\* Fragments the address can carry: the view names, none, and one that names
\* no view.
Fragments == Views \cup {"", "about"}

\* Values of the data-view and data-navigate attributes a click can carry.
ViewNames == Views \cup {"about"}

\* What the markup may display before any view is switched to: nothing, the
\* landing view, or every view.
InitialDisplays == { {}, {"landing"}, Views }

\* The KPI cards before the first render.
NoKpis ==
    [ dropout |-> << >>, change |-> << >>, students |-> << >>, funnel |-> << >>,
      risk |-> "", riskLabel |-> "highRisk" ]

\* An init invocation whose three fetches are all unanswered.
Fetching ==
    [ national |-> "pending", departments |-> "pending", history |-> "pending" ]

\* The navigation as the page loads with the given fragment and markup:
\* setupNavigation has attached its listeners, nothing is routed yet.
NavigationInit(fragment, displayed, active) ==
    /\ AppState = [ currentView |-> "landing", dashboardLoaded |-> FALSE ]
    /\ hash = fragment
    /\ visible = displayed
    /\ activeNav = active
    /\ hashEvents = 0
    /\ routed = FALSE

\* The Dashboard object and its part of the document as loaded.
DashboardInit ==
    /\ Dashboard = [ data |-> << >>, charts |-> << >>, loaded |-> FALSE,
                     selectedDepartment |-> Null ]
    /\ inits = EmptyBag
    /\ filters = << >>
    /\ kpis = NoKpis
    /\ departmentList = << >>
    /\ titles = Null
    /\ dashboardLoading = FALSE
    /\ dashboardError = ""
    /\ interactive = TRUE

SimulatorInit ==
    /\ budget = DefaultBudget
    /\ investments = NoInvestments
    /\ selectedMunicipality = ""
    /\ baseline = << >>
    /\ currentPrediction = << >>
    /\ btnDisabled = [ k \in Kinds |-> FALSE ]
    /\ loadDisabled = TRUE
    /\ muniSelectDisabled = TRUE
    /\ investmentsSection = FALSE
    /\ shown = << >>
    /\ errorMessage = ""
    /\ loading = FALSE
    /\ pending = EmptyBag
    /\ simInit = "loading"
    /\ requestsIssued = 0
    /\ lastEvent = Event("other", "", "")

\* The simulator's initial state, the page loaded at the plain address with
\* the landing markup displayed.
Init ==
    /\ SimulatorInit
    /\ NavigationInit("", {"landing"}, {"landing"})
    /\ DashboardInit
    /\ DefaultLanguage

\* The page loaded at any address, whatever the markup displays at first.
PageInit ==
    /\ SimulatorInit
    /\ \E fragment \in Fragments, displayed \in InitialDisplays :
          NavigationInit(fragment, displayed, displayed \cap {"landing"})
    /\ DashboardInit
    /\ DefaultLanguage

\* ---------------------------------------------------------------------------
\* initSimulator: health check, department list, then the listeners
\* ---------------------------------------------------------------------------

\* healthOk, departmentsOk: whether GET / and GET /departments succeed.
\* The listeners are attached whenever the health check succeeds; a failed
\* department fetch is caught inside loadDepartments and leaves the
\* department <select> with its placeholder only.
initSimulator(healthOk, departmentsOk) ==
    /\ simInit = "loading"
    /\ simInit' = IF ~healthOk THEN "failed"
                  ELSE IF departmentsOk THEN "ready" ELSE "noDepartments"
    /\ errorMessage' = IF ~healthOk THEN "Error al conectar con la API"
                       ELSE IF departmentsOk THEN errorMessage
                       ELSE "Error al cargar departamentos"
    /\ lastEvent' = Event("other", "", "")
    /\ UNCHANGED << simState, btnDisabled, loadDisabled, muniSelectDisabled,
                    investmentsSection, shown, loading, pending, requestsIssued >>
    /\ UNCHANGED << navVars, dashVars, langVars >>

\* setupSimulatorListeners has run.
Listening == simInit \in {"ready", "noDepartments"}

\* ---------------------------------------------------------------------------
\* Territory selection
\* ---------------------------------------------------------------------------

\* handleDepartmentChange: real is FALSE for the placeholder option.  A real
\* option exists only when the department list was loaded.
\* state.selectedDepartment is written here and read nowhere; it is not kept.
handleDepartmentChange(real) ==
    /\ Listening
    /\ real => simInit = "ready"
    /\ muniSelectDisabled' = ~real
    /\ loadDisabled' = TRUE
    /\ lastEvent' = Event("other", "", "")
    /\ UNCHANGED << simState, btnDisabled, investmentsSection, shown,
                    errorMessage, loading, pending, simInit, requestsIssued >>
    /\ UNCHANGED << navVars, dashVars, langVars >>

\* handleMunicipalityChange: m is the value of the chosen option.
handleMunicipalityChange(m) ==
    /\ Listening
    /\ ~muniSelectDisabled
    /\ selectedMunicipality' = m
    /\ loadDisabled' = (m = "")
    /\ lastEvent' = Event("other", "", "")
    /\ UNCHANGED << budget, investments, baseline, currentPrediction, btnDisabled,
                    muniSelectDisabled, investmentsSection, shown, errorMessage,
                    loading, pending, simInit, requestsIssued >>
    /\ UNCHANGED << navVars, dashVars, langVars >>

\* ---------------------------------------------------------------------------
\* handleLoadData, up to its await
\* ---------------------------------------------------------------------------

\* The part of handleLoadData before `await api.predictDropout(...)`:
\* nothing when no municipality is selected, else showLoading(true),
\* hideError() and the request.  op is "load" or "reload" (see Request).
handleLoadDataStart(op) ==
    IF selectedMunicipality = ""
    THEN UNCHANGED << loading, errorMessage, pending, requestsIssued >>
    ELSE /\ CanIssue
         /\ loading' = TRUE
         /\ errorMessage' = ""
         /\ pending' = Issue(Request(op, selectedMunicipality, NoAdjustments))
         /\ requestsIssued' = requestsIssued + 1

\* A click on the load button.
LoadClick ==
    /\ Listening
    /\ ~loadDisabled
    /\ handleLoadDataStart("load")
    /\ lastEvent' = Event("other", "", "")
    /\ UNCHANGED << simState, btnDisabled, loadDisabled, muniSelectDisabled,
                    investmentsSection, shown, simInit >>
    /\ UNCHANGED << navVars, dashVars, langVars >>

\* ---------------------------------------------------------------------------
\* handleReset
\* ---------------------------------------------------------------------------

\* state.budget = 10000
handleResetBudgetKept(b) == b

handleResetBudget(b) == DefaultBudget

\* resetInvestments: the levels it assigns.
resetInvestments(inv) == NoInvestments

\* A click on the reset button: budget and levels are reset at once, the
\* buttons are refreshed, and the baseline is fetched again when a
\* municipality is selected.
handleReset ==
    /\ Listening
    /\ budget' = handleResetBudget(budget)
    /\ investments' = resetInvestments(investments)
    /\ btnDisabled' = updateInvestmentLevels(investments', budget')
    /\ handleLoadDataStart("reload")
    /\ lastEvent' = Event("reset", "", "")
    /\ UNCHANGED << selectedMunicipality, baseline, currentPrediction, loadDisabled,
                    muniSelectDisabled, investmentsSection, shown, simInit >>
    /\ UNCHANGED << navVars, dashVars, langVars >>

\* ---------------------------------------------------------------------------
\* handleInvestment and updatePrediction, up to the await
\* ---------------------------------------------------------------------------

\* state.budget -= cost
DebitTwice(b, c) == b - 2 * c

Debit(b, c) == b - c

\* The part of updatePrediction before `await api.predictDropout(...)`, for
\* the levels inv: showLoading(true), then the adjustments and the request.
\* With no baseline loaded, reading state.baseline.input_parameters throws
\* inside the try block and the catch shows the error.
updatePredictionStart(inv) ==
    IF baseline = << >>
    THEN /\ errorMessage' = "Error al actualizar prediccion"
         /\ loading' = FALSE
         /\ UNCHANGED << pending, requestsIssued >>
    ELSE /\ CanIssue
         /\ loading' = TRUE
         /\ pending' = Issue(Request("predict", selectedMunicipality,
                                     Adjustments(inv, baseline[1])))
         /\ requestsIssued' = requestsIssued + 1
         /\ UNCHANGED errorMessage

\* A click on the invest button of kind k.  A disabled button delivers no
\* click event.  Otherwise handleInvestment runs: it rejects on insufficient
\* budget (a notice that a timer hides after 3 s), else debits the budget,
\* raises the level, refreshes the buttons and starts the new prediction.
handleInvestment(k) ==
    /\ Listening
    /\ investmentsSection
    /\ IF btnDisabled[k]
       THEN /\ lastEvent' = Event("invest", k, "disabled")
            /\ UNCHANGED << simState, btnDisabled, errorMessage, loading, pending,
                            requestsIssued >>
       ELSE IF InsufficientBudget(budget, dataCost(k))
       THEN /\ lastEvent' = Event("invest", k, "rejected")
            /\ errorMessage' = "Presupuesto insuficiente"
            /\ UNCHANGED << simState, btnDisabled, loading, pending, requestsIssued >>
       ELSE /\ lastEvent' = Event("invest", k, "accepted")
            /\ budget' = Debit(budget, dataCost(k))
            /\ investments' = [ investments EXCEPT ![k] = @ + 1 ]
            /\ btnDisabled' = updateInvestmentLevels(investments', budget')
            /\ updatePredictionStart(investments')
            /\ UNCHANGED << selectedMunicipality, baseline, currentPrediction >>
    /\ UNCHANGED << loadDisabled, muniSelectDisabled, investmentsSection, shown, simInit >>
    /\ UNCHANGED << navVars, dashVars, langVars >>

\* ---------------------------------------------------------------------------
\* Continuations: a response to a request in flight arrives
\* ---------------------------------------------------------------------------

\* What updatePrediction stores in state.baseline from its response.
updatePredictionBaselineOverwritten(base, prediction) == << prediction >>

updatePredictionBaseline(base, prediction) == base

\* The continuation of handleLoadData for the request req.  ok: the response is
\* 2xx.  On success the prediction becomes baseline and current prediction,
\* resetInvestments clears the levels (the budget is not touched) and
\* displayResults shows the figures and the investments section.
handleLoadDataResponse(req, ok) ==
    /\ BagIn(req, pending)
    /\ req.op \in {"load", "reload"}
    /\ ok => ServerCanAnswer(req)
    /\ pending' = Remove(pending, req)
    /\ loading' = FALSE
    /\ lastEvent' = Event("response", req.op, IF ok THEN "ok" ELSE "failed")
    /\ IF ok
       THEN /\ baseline' = << ServerPredict(req) >>
            /\ currentPrediction' = << ServerPredict(req) >>
            /\ investments' = resetInvestments(investments)
            /\ btnDisabled' = updateInvestmentLevels(investments', budget)
            /\ shown' = currentPrediction'
            /\ investmentsSection' = TRUE
            /\ UNCHANGED errorMessage
       ELSE /\ errorMessage' = "Error al cargar datos"
            /\ UNCHANGED << baseline, currentPrediction, investments, btnDisabled,
                            shown, investmentsSection >>
    /\ UNCHANGED << budget, selectedMunicipality, loadDisabled, muniSelectDisabled,
                    simInit, requestsIssued >>
    /\ UNCHANGED << navVars, dashVars, langVars >>

\* The continuation of updatePrediction for the request req: on success the
\* prediction replaces the current prediction and displayResults shows it.
updatePredictionResponse(req, ok) ==
    /\ BagIn(req, pending)
    /\ req.op = "predict"
    /\ ok => ServerCanAnswer(req)
    /\ pending' = Remove(pending, req)
    /\ loading' = FALSE
    /\ lastEvent' = Event("response", "predict", IF ok THEN "ok" ELSE "failed")
    /\ IF ok
       THEN /\ currentPrediction' = << ServerPredict(req) >>
            /\ baseline' = updatePredictionBaseline(baseline, ServerPredict(req))
            /\ shown' = currentPrediction'
            /\ investmentsSection' = TRUE
            /\ UNCHANGED errorMessage
       ELSE /\ errorMessage' = "Error al actualizar prediccion"
            /\ UNCHANGED << baseline, currentPrediction, shown, investmentsSection >>
    /\ UNCHANGED << budget, investments, selectedMunicipality, btnDisabled,
                    loadDisabled, muniSelectDisabled, simInit, requestsIssued >>
    /\ UNCHANGED << navVars, dashVars, langVars >>

\* ---------------------------------------------------------------------------
\* Dashboard rendering
\* ---------------------------------------------------------------------------

Abs(x) == IF x < 0 THEN -x ELSE x

\* Number.toFixed(1) of a non-negative percentage scaled by 100: the number
\* of tenths, rounded half up.
ToFixed1(x) == (x + 5) \div 10

\* (ratio * 100).toFixed(1) of a ratio scaled by 10000: tenths of a percent.
FunnelText(ratio) == (ratio + 5) \div 10

\* The text and class of #kpi-dropout-change for a change of the rate.
ChangeText(change) ==
    [ icon   |-> IF change > 0 THEN "up" ELSE IF change < 0 THEN "down" ELSE "same",
      amount |-> ToFixed1(Abs(change)) ]

\* charts.formatNumber: the en-US grouping of a count, as its groups of
\* three digits from the most significant.
RECURSIVE formatNumber(_)
formatNumber(num) ==
    IF num < 1000 THEN << num >>
    ELSE Append(formatNumber(num \div 1000), num % 1000)

\* The threshold test of the high-risk KPI.
HighRiskFromSix(d) == d.dropout_rate >= 600

HighRisk(d) == d.dropout_rate > 600

\* renderKPIs: the cards as filled from the stored national figures and
\* department list; the fourth card's text is the count as a string, and
\* its label is not written.
renderKPIs(k, data) ==
    [ dropout   |-> << "asIs", data.national.dropout_rate >>,
      change    |-> ChangeText(data.national.year_over_year_change),
      students  |-> formatNumber(data.national.total_students),
      funnel    |-> FunnelText(data.national.funnel_efficiency),
      risk      |-> ToString(Cardinality({ i \in DOMAIN data.departments :
                                              HighRisk(data.departments[i]) })),
      riskLabel |-> k.riskLabel ]

\* updateKPIsForDepartment: for null the national render, else the cards
\* as filled from the last point of the series (the change also needs the
\* point before it); a card the series cannot fill keeps its content.
updateKPIsForDepartmentOnly(k, departmentCode, history, data) ==
    IF departmentCode = Null
    THEN k
    ELSE [ k EXCEPT !.risk = departmentCode, !.riskLabel = "departmentCode" ]

updateKPIsForDepartment(k, departmentCode, history, data) ==
    IF departmentCode = Null
    THEN renderKPIs(k, data)
    ELSE LET n == Len(history.data)
         IN  [ dropout   |-> IF n > 0 THEN << "toFixed2", history.data[n].dropout_rate >>
                             ELSE k.dropout,
               change    |-> IF n > 1
                             THEN ChangeText(history.data[n].dropout_rate
                                             - history.data[n - 1].dropout_rate)
                             ELSE k.change,
               students  |-> IF n > 0 THEN formatNumber(history.data[n].students)
                             ELSE k.students,
               funnel    |-> IF n > 0 THEN FunnelText(history.data[n].funnel_ratio)
                             ELSE k.funnel,
               risk      |-> departmentCode,
               riskLabel |-> "departmentCode" ]

\* Array.prototype.sort by descending dropout_rate: stable, on a copy.
RECURSIVE SortByRateUnstable(_)
SortByRateUnstable(list) ==
    IF list = << >> THEN << >>
    ELSE LET d    == list[Len(list)]
             rest == SortByRateUnstable(SubSeq(list, 1, Len(list) - 1))
             n    == Cardinality({ i \in DOMAIN rest :
                                      rest[i].dropout_rate > d.dropout_rate })
         IN  SubSeq(rest, 1, n) \o << d >> \o SubSeq(rest, n + 1, Len(rest))

RECURSIVE SortByRate(_)
SortByRate(list) ==
    IF list = << >> THEN << >>
    ELSE LET d    == list[Len(list)]
             rest == SortByRate(SubSeq(list, 1, Len(list) - 1))
             n    == Cardinality({ i \in DOMAIN rest :
                                      rest[i].dropout_rate >= d.dropout_rate })
         IN  SubSeq(rest, 1, n) \o << d >> \o SubSeq(rest, n + 1, Len(rest))

\* charts.getRiskLabel: the label of a dropout rate in the given language.
RiskLabels ==
    [ en |-> [ low |-> "Low", medium |-> "Medium", high |-> "High" ],
      es |-> [ low |-> "Bajo", medium |-> "Medio", high |-> "Alto" ] ]

getRiskLabel(dropoutRate, lang) ==
    IF dropoutRate < 300 THEN RiskLabels[lang].low
    ELSE IF dropoutRate < 600 THEN RiskLabels[lang].medium
    ELSE RiskLabels[lang].high

\* renderDepartmentList: the items below the "all" item, and the items
\* marked selected.
renderDepartmentList(data, selected) ==
    << [ items    |-> SortByRate(data.departments),
         selected |-> { c \in CodesOf(data.departments) \cup {"all"} :
                           IF c = "all" THEN selected = Null ELSE selected = c } ] >>

\* createTrendChart and createFunnelChart: both charts are rebuilt from the
\* stored series.
renderCharts(data) == [ trend |-> data.history, funnel |-> data.history ]

\* An init invocation whose three fetches have all succeeded.
Fetched ==
    [ national |-> "ok", departments |-> "ok", history |-> "ok" ]

\* The dashboard view once a first init has rendered the answers of the
\* service, the department list being `list`; with `again`, a second init
\* (issued by a second switch to the view before the first answers came)
\* is still waiting for its own answers.
Ready(list, again) ==
    LET data == [ national    |-> NationalStats,
                  departments |-> list,
                  history     |-> HistoricalTrends(Null) ]
    IN  /\ AppState = [ currentView |-> "dashboard", dashboardLoaded |-> TRUE ]
        /\ hash = "dashboard"
        /\ visible = {"dashboard"}
        /\ activeNav = {"dashboard"}
        /\ hashEvents = 0
        /\ routed = FALSE
        /\ Dashboard = [ data |-> << data >>, charts |-> << renderCharts(data) >>,
                         loaded |-> TRUE, selectedDepartment |-> Null ]
        /\ inits = SetToBag({Fetched})
                      (+) (IF again THEN SetToBag({Fetching}) ELSE EmptyBag)
        /\ filters = << >>
        /\ kpis = renderKPIs(NoKpis, data)
        /\ departmentList = renderDepartmentList(data, Null)
        /\ titles = Null
        /\ dashboardLoading = FALSE
        /\ dashboardError = ""
        /\ interactive = TRUE

\* The dashboard ready, whatever department list the service sent.
ReadyInit ==
    /\ SimulatorInit
    /\ \E list \in DepartmentLists, again \in BOOLEAN : Ready(list, again)
    /\ DefaultLanguage

\* ---------------------------------------------------------------------------
\* Navigation
\* ---------------------------------------------------------------------------

\* AppState.views.includes(viewName), the guard of switchView.
IsViewAny(viewName) == TRUE

IsView(viewName) == viewName \in Views

\* The test `Dashboard.loaded` at the top of dashboard.init().
AlreadyLoadedNever(loaded) == FALSE

AlreadyLoaded(loaded) == loaded

\* dashboard.init() up to its await: nothing when already loaded, else the
\* loading indicator and the three fetches of loadData, issued together.
dashboardInit ==
    IF AlreadyLoaded(Dashboard.loaded)
    THEN UNCHANGED << inits, dashboardLoading >>
    ELSE /\ BagCardinality(inits) < MaxInits
         /\ inits' = inits (+) SetToBag({Fetching})
         /\ dashboardLoading' = TRUE

\* The views displayed once switchView has hidden every view and shown the
\* selected one.
DisplayedWithoutHiding(shownBefore, viewName) == shownBefore \cup {viewName}

Displayed(shownBefore, viewName) == {viewName}

\* The fragment written by switchView.
FragmentKept(old, viewName) == old

FragmentFor(old, viewName) == viewName

\* The hashchange events queued by the assignment to window.location.hash:
\* the browser fires one only when the fragment changes.
QueuedAlways(old, new) == 1

Queued(old, new) == IF new # old THEN 1 ELSE 0

\* switchView(viewName), called with `queued` hashchange events waiting.
\* Writing a different fragment queues a hashchange event.  The promise of
\* dashboard.init() is still unresolved when switchView returns, unless
\* init returned at once.
switchView(viewName, queued) ==
    IF ~IsView(viewName)
    THEN /\ hashEvents' = queued
         /\ UNCHANGED << AppState, hash, visible, activeNav, dashVars >>
    ELSE /\ visible' = Displayed(visible, viewName)
         /\ activeNav' = {viewName}
         /\ hash' = FragmentFor(hash, viewName)
         /\ hashEvents' = queued + Queued(hash, hash')
         /\ hashEvents' <= MaxHashEvents
         /\ IF viewName = "dashboard" /\ ~AppState.dashboardLoaded
            THEN dashboardInit
            ELSE UNCHANGED << inits, dashboardLoading >>
         /\ AppState' =
              [ currentView     |-> viewName,
                dashboardLoaded |-> \/ AppState.dashboardLoaded
                                    \/ viewName = "dashboard" /\ Dashboard.loaded ]
         /\ UNCHANGED << Dashboard, filters, kpis, departmentList, titles,
                         dashboardError, interactive >>

\* A click on a nav item or on the landing page's button, whose data-view or
\* data-navigate attribute is view.
NavClick(view) ==
    /\ switchView(view, hashEvents)
    /\ lastEvent' = Event("click", view, "")
    /\ UNCHANGED << langVars, simVars, routed >>

\* The browser changes the fragment (back, forward, or an edited address)
\* and queues a hashchange event.
Navigate(fragment) ==
    /\ fragment # hash
    /\ hashEvents < MaxHashEvents
    /\ hash' = fragment
    /\ hashEvents' = hashEvents + 1
    /\ lastEvent' = Event("navigate", "", "")
    /\ UNCHANGED << langVars, simVars, AppState, visible, activeNav, routed, dashVars >>

\* The hashchange listener of setupNavigation handles one queued event: it
\* reads the fragment as it is now.  The event recorded names the view that
\* was current before.
hashchange ==
    /\ hashEvents > 0
    /\ IF hash # "" /\ hash \in Views
       THEN /\ switchView(hash, hashEvents - 1)
            /\ lastEvent' = Event("hashchange", AppState.currentView, "switched")
       ELSE /\ hashEvents' = hashEvents - 1
            /\ lastEvent' = Event("hashchange", AppState.currentView, "ignored")
            /\ UNCHANGED << AppState, hash, visible, activeNav, dashVars >>
    /\ UNCHANGED << langVars, simVars, routed >>

\* The view init() selects for the fragment it finds.
initialViewAlwaysLanding(fragment) == "landing"

initialView(fragment) ==
    IF fragment # "" /\ fragment \in Views THEN fragment ELSE "landing"

\* `await initSimulator()` in init(): initSimulator catches its own errors,
\* so its promise resolves whether or not the health check succeeded.
SettledOnSuccess(s) == s = "ready"

Settled(s) == s # "loading"

\* The end of init(): once initSimulator has settled, the initial route.
\* The event recorded names the fragment found.
initialRoute ==
    /\ ~routed
    /\ Settled(simInit)
    /\ switchView(initialView(hash), hashEvents)
    /\ routed' = TRUE
    /\ lastEvent' = Event("route", hash, "")
    /\ UNCHANGED << langVars, simVars >>

\* ---------------------------------------------------------------------------
\* Dashboard: the joint await of loadData, and filterByDepartment
\* ---------------------------------------------------------------------------

Resources == {"national", "departments", "history"}

\* showError of the dashboard: the text #dashboardError displays.
showErrorNothing(message) == ""

showError(message) == message

\* Promise.all over the three fetches of an invocation: rejected as soon as
\* one has failed, fulfilled when all three have succeeded.
Rejected(inv) == \E r \in Resources : inv[r] = "failed"

FulfilledByAny(inv) == \E r \in Resources : inv[r] = "ok"

Fulfilled(inv) == \A r \in Resources : inv[r] = "ok"

\* The answer to one fetch of the invocation `call` of init arrives; ok: it is
\* 2xx.  An answer that arrives after the joint await was rejected is
\* dropped by Promise.all and is no step of the program.  When the answer
\* settles the joint await, init goes on in the same step:
\* on success loadData stores the three resources and init renders the KPIs,
\* the charts and the department list and marks the dashboard loaded; on
\* failure init shows the error.  Either way its promise resolves and
\* switchView's callback sets AppState.dashboardLoaded.
InitFetchResponse(call, resource, ok) ==
    /\ BagIn(call, inits)
    /\ call[resource] = "pending"
    /\ ~Rejected(call)
    /\ LET inv      == [ call EXCEPT ![resource] = IF ok THEN "ok" ELSE "failed" ]
           fails    == Rejected(inv)
           succeeds == Fulfilled(inv)
           data     == [ national    |-> NationalStats,
                         departments |-> DepartmentStats,
                         history     |-> HistoricalTrends(Null) ]
       IN  /\ inits' = Remove(inits, call) (+) SetToBag({inv})
           /\ IF succeeds
              THEN /\ Dashboard' = [ Dashboard EXCEPT !.data = << data >>,
                                                      !.charts = << renderCharts(data) >>,
                                                      !.loaded = TRUE ]
                   /\ kpis' = renderKPIs(kpis, data)
                   /\ departmentList' = renderDepartmentList(data, Dashboard.selectedDepartment)
                   /\ dashboardLoading' = FALSE
                   /\ AppState' = [ AppState EXCEPT !.dashboardLoaded = TRUE ]
                   /\ lastEvent' = Event("initResponse", "", "rendered")
                   /\ UNCHANGED dashboardError
              ELSE IF fails
              THEN /\ dashboardError' = showError("Error loading analytics data")
                   /\ dashboardLoading' = FALSE
                   /\ AppState' = [ AppState EXCEPT !.dashboardLoaded = TRUE ]
                   /\ lastEvent' = Event("initResponse", "", "failed")
                   /\ UNCHANGED << Dashboard, kpis, departmentList >>
              ELSE /\ lastEvent' = Event("initResponse", "", "waiting")
                   /\ UNCHANGED << Dashboard, kpis, departmentList, dashboardLoading,
                                   dashboardError, AppState >>
    /\ UNCHANGED << langVars, simVars, hash, visible, activeNav, hashEvents, routed,
                    filters, titles, interactive >>

\* #departmentList lies inside the .view-dashboard element, whose
\* pointer-events style filterByDepartment switches.
ListInsideView == TRUE

\* A click on an item of the department list (Null for the "all" item):
\* filterByDepartment up to its await.  The code is the data-dept-code of
\* an item as rendered.  The one request issued is the history fetch, at
\* the address of getHistoricalTrends; it remembers the selection it
\* replaced (bookkeeping of the model).
DeptClick(departmentCode) ==
    /\ departmentList # << >>
    /\ departmentCode = Null \/ departmentCode \in CodesOf(departmentList[1].items)
    /\ "dashboard" \in visible
    /\ ListInsideView => interactive
    /\ Dashboard' = [ Dashboard EXCEPT !.selectedDepartment = departmentCode ]
    /\ interactive' = FALSE
    /\ filters' = Append(filters, [ code |-> departmentCode,
                                    from |-> Dashboard.selectedDepartment,
                                    url  |-> ApiUrl("getHistoricalTrends", departmentCode) ])
    /\ lastEvent' = Event("filter", departmentCode, "start")
    /\ UNCHANGED << langVars, simVars, navVars, inits, kpis, departmentList, titles,
                    dashboardLoading, dashboardError >>

\* pointerEvents = 'auto' at the end of filterByDepartment, on the try
\* path and in the catch block; ok: the fetch succeeded.
restoreInteractionOnSuccess(ok) == ok

restoreInteraction(ok) == TRUE

\* The answer to the history fetch of the i-th filter in flight arrives.
\* On success the series replaces the stored one and the header, the KPIs,
\* the charts, their titles and the list are redone; on failure the error
\* is shown and Dashboard.selectedDepartment stays as filterByDepartment
\* wrote it before the fetch.  Interaction is restored either way.
FilterResponse(i, ok) ==
    /\ i \in DOMAIN filters
    /\ filters' = SubSeq(filters, 1, i - 1) \o SubSeq(filters, i + 1, Len(filters))
    /\ interactive' = restoreInteraction(ok)
    /\ IF ok /\ Dashboard.data # << >>
       THEN LET history == Served(filters[i].url)
                data    == [ Dashboard.data[1] EXCEPT !.history = history ]
            IN  /\ Dashboard' = [ Dashboard EXCEPT !.data = << data >>,
                                                   !.charts = << renderCharts(data) >> ]
                /\ titles' = filters[i].code
                /\ kpis' = updateKPIsForDepartment(kpis, filters[i].code, history, data)
                /\ departmentList' = renderDepartmentList(data, Dashboard.selectedDepartment)
                /\ lastEvent' = Event("filterResponse", filters[i].code, "ok")
                /\ UNCHANGED << dashboardError, dashboardLoading >>
       ELSE /\ UNCHANGED Dashboard
            /\ dashboardError' = showError("Error loading department data")
            /\ dashboardLoading' = FALSE
            /\ lastEvent' = Event("filterResponse", filters[i].code, "failed")
            /\ UNCHANGED << titles, kpis, departmentList >>
    /\ UNCHANGED << langVars, simVars, navVars, inits >>

\* dashboard.init() called directly: the function is exported, and the
\* call is not behind the test of switchView.
InitCall ==
    /\ dashboardInit
    /\ lastEvent' = Event("init", "", IF Dashboard.loaded THEN "loaded" ELSE "fetching")
    /\ UNCHANGED << langVars, simVars, navVars, Dashboard, filters, kpis, departmentList,
                    titles, dashboardError, interactive >>

\* ---------------------------------------------------------------------------
\* Language: switchLanguage, the toggle button, the dashboard's listener
\* ---------------------------------------------------------------------------

\* updateLanguage, the dashboard's listener of languageChanged: nothing
\* before the dashboard is loaded; else renderKPIs and renderDepartmentList
\* from the stored data, and the labels of the charts (their data stays).
updateLanguage ==
    IF ~Dashboard.loaded
    THEN UNCHANGED << kpis, departmentList >>
    ELSE /\ kpis' = renderKPIs(kpis, Dashboard.data[1])
         /\ departmentList' = renderDepartmentList(Dashboard.data[1],
                                                   Dashboard.selectedDepartment)

\* switchLanguage(lang): an unsupported code is logged and nothing changes;
\* else the language is made current and persisted, the button reads it,
\* and languageChanged is dispatched, which runs the listener at once.
switchLanguage(lang) ==
    LET language == Switched([ current |-> currentLanguage, stored |-> storedLanguage,
                               button |-> langButton ], lang)
    IN  /\ currentLanguage' = language.current
        /\ storedLanguage' = language.stored
        /\ langButton' = language.button
        /\ IF Translated(lang)
           THEN /\ updateLanguage
                /\ lastEvent' = Event("switchLanguage", lang, "languageChanged")
           ELSE /\ UNCHANGED << kpis, departmentList >>
                /\ lastEvent' = Event("switchLanguage", lang, "unsupported")
        /\ UNCHANGED << simVars, navVars, Dashboard, inits, filters, titles,
                        dashboardLoading, dashboardError, interactive >>

\* toggleLanguage: a click on the language button switches to 'es' when the
\* button reads EN, else to 'en'.
toggleLanguage ==
    switchLanguage(IF langButton = "en" THEN "es" ELSE "en")

\* ---------------------------------------------------------------------------
\* Specification
\* ---------------------------------------------------------------------------

Next ==
    \/ \E healthOk, departmentsOk \in BOOLEAN : initSimulator(healthOk, departmentsOk)
    \/ \E real \in BOOLEAN : handleDepartmentChange(real)
    \/ \E m \in MunicipalityOptions : handleMunicipalityChange(m)
    \/ LoadClick
    \/ handleReset
    \/ \E k \in Kinds : handleInvestment(k)
    \/ \E req \in BagToSet(pending), ok \in BOOLEAN : handleLoadDataResponse(req, ok)
    \/ \E req \in BagToSet(pending), ok \in BOOLEAN : updatePredictionResponse(req, ok)

Spec == Init /\ [][Next]_vars

\* The navigation and the initialisation of the dashboard, with
\* initSimulator of the simulator.
PageNext ==
    \/ \E healthOk, departmentsOk \in BOOLEAN : initSimulator(healthOk, departmentsOk)
    \/ initialRoute
    \/ \E view \in ViewNames : NavClick(view)
    \/ \E fragment \in Fragments : Navigate(fragment)
    \/ hashchange
    \/ \E call \in BagToSet(inits), resource \in Resources, ok \in BOOLEAN :
          InitFetchResponse(call, resource, ok)

PageSpec == PageInit /\ [][PageNext]_vars

\* The dashboard entered from the landing page, and its department filter.
DashboardNext ==
    \/ \E view \in {"dashboard"} : NavClick(view)
    \/ hashchange
    \/ \E call \in BagToSet(inits), resource \in Resources, ok \in BOOLEAN :
          InitFetchResponse(call, resource, ok)
    \/ \E departmentCode \in DepartmentCodes \cup {Null} : DeptClick(departmentCode)
    \/ \E i \in DOMAIN filters, ok \in BOOLEAN : FilterResponse(i, ok)

DashboardSpec == Init /\ [][DashboardNext]_vars

\* What the caller of a rejected operation passes to its showError, as the
\* fixed text and the part appended to it: handleLoadData appends the
\* error's message; loadData replaces the error by its own before init
\* appends the message; filterByDepartment appends nothing.
Surfaced(operation, departmentCode, settlement) ==
    IF operation = "predictDropout" THEN << "Error al cargar datos: ", settlement.message >>
    ELSE IF departmentCode = Null
    THEN << "Error loading analytics data: ", "Failed to load analytics data from API" >>
    ELSE << "Error loading department data", "" >>

\* A call of an operation and its settlement; the event recorded holds the
\* call and the settlement.
ApiCall(operation, departmentCode, response, browserMessage) ==
    /\ departmentCode # Null => operation = "getHistoricalTrends"
    /\ response # NoResponse => browserMessage = "Failed to fetch"
    /\ lastEvent' = Event("api",
                          [ operation |-> operation, departmentCode |-> departmentCode,
                            response |-> response ],
                          Settlement(operation, departmentCode, response, browserMessage))
    /\ UNCHANGED << langVars, simVars, navVars, dashVars >>

\* The operations of the API client, called with any response.
ApiNext ==
    \E operation \in ApiOperations, departmentCode \in DepartmentCodes \cup {Null},
       response \in Responses, browserMessage \in BrowserMessages :
        ApiCall(operation, departmentCode, response, browserMessage)

ApiSpec == Init /\ [][ApiNext]_vars

\* The page loaded at the plain address or at #dashboard, the simulator and
\* the dashboard both in use.
JointInit ==
    /\ SimulatorInit
    /\ \E fragment \in {"", "dashboard"} : NavigationInit(fragment, {"landing"}, {"landing"})
    /\ DashboardInit
    /\ DefaultLanguage

JointNext ==
    \/ \E healthOk, departmentsOk \in BOOLEAN : initSimulator(healthOk, departmentsOk)
    \/ initialRoute
    \/ \E real \in {TRUE} : handleDepartmentChange(real)
    \/ \E m \in Municipalities : handleMunicipalityChange(m)
    \/ requestsIssued < MaxJointRequests /\ LoadClick
    \/ requestsIssued < MaxJointRequests /\ handleReset
    \/ requestsIssued < MaxJointRequests /\ \E k \in {"coverage"} : handleInvestment(k)
    \/ \E req \in BagToSet(pending), ok \in BOOLEAN : handleLoadDataResponse(req, ok)
    \/ \E req \in BagToSet(pending), ok \in BOOLEAN : updatePredictionResponse(req, ok)
    \/ \E view \in {"dashboard"} : NavClick(view)
    \/ hashchange
    \/ \E call \in BagToSet(inits), resource \in Resources, ok \in BOOLEAN :
          InitFetchResponse(call, resource, ok)
    \/ \E departmentCode \in {"27"} : DeptClick(departmentCode)
    \/ \E i \in DOMAIN filters, ok \in BOOLEAN : FilterResponse(i, ok)

JointSpec == JointInit /\ [][JointNext]_vars

\* The dashboard once ready, for every department list of the service.
ReadyNext ==
    \/ InitCall
    \/ \E call \in BagToSet(inits), resource \in Resources, ok \in BOOLEAN :
          InitFetchResponse(call, resource, ok)
    \/ \E departmentCode \in { CodeAt(i) : i \in 1..MaxDepartments } \cup {Null} :
          DeptClick(departmentCode)
    \/ \E i \in DOMAIN filters, ok \in BOOLEAN : FilterResponse(i, ok)

ReadySpec == ReadyInit /\ [][ReadyNext]_vars

\* The page loaded with any persisted language preference, the dashboard
\* entered and filtered while the language is switched.
LanguagePageInit ==
    /\ SimulatorInit
    /\ NavigationInit("", {"landing"}, {"landing"})
    /\ DashboardInit
    /\ \E preference \in StoredPreferences, markup \in MarkupLanguages :
          LanguageInit(preference, markup)

LanguageNext ==
    \/ toggleLanguage
    \/ \E lang \in LanguageCodes : switchLanguage(lang)
    \/ \E view \in {"dashboard"} : NavClick(view)
    \/ hashchange
    \/ \E call \in BagToSet(inits), resource \in Resources, ok \in BOOLEAN :
          InitFetchResponse(call, resource, ok)
    \/ \E departmentCode \in DepartmentCodes \cup {Null} : DeptClick(departmentCode)
    \/ \E i \in DOMAIN filters, ok \in BOOLEAN : FilterResponse(i, ok)

LanguageSpec == LanguagePageInit /\ [][LanguageNext]_vars

\* ---------------------------------------------------------------------------
\* Properties of the simulator
\* ---------------------------------------------------------------------------

\* A step that handled a click on the invest button of kind k (delivered or
\* not) ends with lastEvent naming it.
InvestClicked(k) == lastEvent'.type = "invest" /\ lastEvent'.kind = k

\* The prediction the service gives for the loaded baseline's municipality
\* under the levels inv.
PredictionFor(inv) ==
    ServerPredict(Request("predict", baseline[1].municipality_name,
                          Adjustments(inv, baseline[1])))

\* C1: every investment level is between 0 and 3 in every reachable state.
C1_LevelsInRange == \A k \in Kinds : investments[k] \in 0..MaxLevel

\* A kind has been raised to level 3 and its button is disabled.
C1_Witness == \E k \in Kinds : investments[k] = MaxLevel /\ btnDisabled[k]

\* C2: the budget is never negative, and a step lowers it only as an accepted
\* investment in some kind k, by exactly the cost of k, raising k by one.
C2_BudgetOnlyDebitedByCost ==
    /\ [](budget >= 0)
    /\ [][ budget' < budget =>
             \E k \in Kinds :
                /\ lastEvent' = Event("invest", k, "accepted")
                /\ budget' = budget - INVESTMENT_CONFIG[k].cost
                /\ investments' = [ investments EXCEPT ![k] = @ + 1 ] ]_vars

\* An accepted investment has spent the whole budget.
C2_Witness == lastEvent.type = "invest" /\ lastEvent.outcome = "accepted" /\ budget = 0

\* C3: a click on the invest button of a kind at level 3 changes neither the
\* budget nor any level and issues no request.
C3_ClickAtMaxLevelChangesNothing ==
    [][ \A k \in Kinds :
          InvestClicked(k) /\ investments[k] = MaxLevel =>
             UNCHANGED << budget, investments, pending, requestsIssued >> ]_vars

\* The button of a kind at level 3 was clicked while the budget would still
\* have paid for it.
C3_Witness ==
    \E k \in Kinds :
       /\ lastEvent = Event("invest", k, "disabled")
       /\ investments[k] = MaxLevel
       /\ budget >= dataCost(k)

\* C4: a click on the invest button of a kind the budget cannot pay for
\* changes neither budget, levels, baseline nor current prediction and issues
\* no request.
C4_ClickWithoutBudgetChangesNothing ==
    [][ \A k \in Kinds :
          InvestClicked(k) /\ budget < dataCost(k) =>
             UNCHANGED << budget, investments, baseline, currentPrediction,
                          pending, requestsIssued >> ]_vars

\* The button of a kind below level 3 was clicked with too small a budget.
C4_Witness ==
    \E k \in Kinds :
       /\ lastEvent = Event("invest", k, "disabled")
       /\ investments[k] < MaxLevel
       /\ budget < dataCost(k)

\* C5: a reset leaves the budget at the default and every level at 0,
\* whatever they were before.
C5_ResetRestoresBudgetAndLevels ==
    [][ lastEvent'.type = "reset" =>
          budget' = DefaultBudget /\ investments' = NoInvestments ]_vars

\* A reset was done after investments had been made and predicted.
C5_Witness ==
    /\ lastEvent.type = "reset"
    /\ baseline # << >>
    /\ currentPrediction # baseline
    /\ budget = DefaultBudget
    /\ investments = NoInvestments

\* C6: at most one prediction request is in flight at any time.
C6_AtMostOneInFlight == BagCardinality(pending) <= 1

\* C7: the current prediction changes only by the response to the request
\* issued last.
C7_OnlyLatestResponseApplied ==
    [][ currentPrediction' # currentPrediction =>
          \E req \in BagToSet(pending) :
             /\ req.latest
             /\ pending' = Remove(pending, req)
             /\ currentPrediction' = << ServerPredict(req) >> ]_vars

\* C8: with no request pending, the figures shown are those of a prediction
\* for the current levels; and they change only when a response arrives.
C8_ShownIsForCurrentLevels ==
    /\ [](pending = EmptyBag /\ shown # << >> => shown[1] = PredictionFor(investments))
    /\ [][ shown' # shown => lastEvent'.type = "response" ]_vars

\* C9: an investment click and the response to its prediction request leave
\* the baseline alone, the response changing only the current prediction;
\* the baseline changes only by a successful (re)load response, which makes
\* it the current prediction too.
C9_BaselineOnlyFromLoad ==
    /\ [][ lastEvent'.type = "invest" => baseline' = baseline ]_vars
    /\ [][ lastEvent'.type = "response" /\ lastEvent'.kind = "predict" =>
             UNCHANGED << baseline, budget, investments, selectedMunicipality >> ]_vars
    /\ [][ baseline' # baseline =>
             /\ lastEvent'.type = "response"
             /\ lastEvent'.kind \in {"load", "reload"}
             /\ lastEvent'.outcome = "ok"
             /\ currentPrediction' = baseline' ]_vars

\* A prediction response has replaced the current prediction and the
\* baseline is still the loaded one.
C9_Witness ==
    /\ lastEvent = Event("response", "predict", "ok")
    /\ baseline = << ServerPredict(Request("load", "Quibdo", NoAdjustments)) >>
    /\ currentPrediction # baseline

\* C10: when the baseline fetch re-issued by a reset has succeeded and no
\* request is pending, the state is that of a fresh load: baseline and
\* current prediction are the response, budget is the default, levels are 0.
C10_ResetEndsAsFreshLoad ==
    lastEvent = Event("response", "reload", "ok") /\ pending = EmptyBag =>
       /\ budget = DefaultBudget
       /\ investments = NoInvestments
       /\ baseline = currentPrediction
       /\ baseline = << PredictionFor(NoInvestments) >>

\* C11: the request issued by an accepted investment carries, for exactly the
\* kinds whose level is above 0, the entry parameter(kind) -> baseline input
\* of that parameter + improvement(kind) * level(kind), and no other entry.
C11_AdjustmentsFromLevels ==
    [][ \A k \in Kinds :
          lastEvent' = Event("invest", k, "accepted") /\ baseline # << >> =>
             \E req \in BagToSet(pending') :
                /\ req.latest /\ req.op = "predict"
                /\ pending' = Issue(req)
                /\ DOMAIN req.scenario_adjustments =
                      { INVESTMENT_CONFIG[kk].parameter :
                           kk \in { j \in Kinds : investments'[j] > 0 } }
                /\ \A kk \in Kinds :
                      investments'[kk] > 0 =>
                         req.scenario_adjustments[INVESTMENT_CONFIG[kk].parameter] =
                            baseline[1].input_parameters[INVESTMENT_CONFIG[kk].parameter]
                            + INVESTMENT_CONFIG[kk].improvement * investments'[kk] ]_vars

\* Staffing was raised to level 1 on a baseline classroom_density of 30.0 and
\* the request in flight carries classroom_density 28.0 and nothing else.
C11_Witness ==
    /\ lastEvent = Event("invest", "staffing", "accepted")
    /\ investments = [ NoInvestments EXCEPT !["staffing"] = 1 ]
    /\ baseline # << >>
    /\ baseline[1].input_parameters["classroom_density"] = 3000
    /\ \E req \in BagToSet(pending) :
          /\ req.latest
          /\ DOMAIN req.scenario_adjustments = {"classroom_density"}
          /\ req.scenario_adjustments["classroom_density"] = 2800

\* ---------------------------------------------------------------------------
\* Properties of the navigation
\* ---------------------------------------------------------------------------

\* C12: over any sequence of view switches the three-way analytics fetch is
\* issued at most once.
C12_AnalyticsFetchedAtMostOnce == BagCardinality(inits) <= 1

\* C13: once the initial view has been selected, exactly one of the three
\* views is displayed.
C13_ExactlyOneViewVisible ==
    routed => \E v \in Views : visible = {v}

\* The page was routed and a later click switched from the routed view to
\* the simulator, which alone is displayed.
C13_Witness ==
    /\ routed
    /\ lastEvent = Event("click", "simulator", "")
    /\ visible = {"simulator"}
    /\ hashEvents > 0

\* C14: a click that calls switchView with a name that is no view changes
\* neither the displayed views, the active nav item, the fragment, AppState,
\* the queued events nor anything of the dashboard.
C14_UnknownViewChangesNothing ==
    [][ lastEvent'.type = "click" /\ lastEvent'.kind \notin Views =>
          UNCHANGED << visible, activeNav, hash, AppState, hashEvents, dashVars >> ]_vars

\* switchView("about") was called while the dashboard was the current view.
C14_Witness ==
    /\ lastEvent = Event("click", "about", "")
    /\ routed
    /\ AppState.currentView = "dashboard"
    /\ visible = {"dashboard"}

\* C15: a click that calls switchView(v) with a view v leaves the fragment
\* and AppState.currentView at v; the handling of a hashchange event whose
\* fragment names a view makes that view the current and displayed one; and
\* once routed, with no hashchange event waiting, a fragment that names a
\* view names the current view.
C15_FragmentReflectsView ==
    /\ [][ \A v \in Views :
             lastEvent' = Event("click", v, "") =>
                hash' = v /\ AppState'.currentView = v ]_vars
    /\ [][ lastEvent'.type = "hashchange" /\ hash \in Views =>
             /\ AppState'.currentView = hash
             /\ visible' = {hash}
             /\ hash' = hash ]_vars
    /\ [](routed /\ hashEvents = 0 /\ hash \in Views => AppState.currentView = hash)

\* A back/forward navigation from the dashboard to #simulator has been
\* handled and the simulator is the current view.
C15_Witness ==
    /\ lastEvent = Event("hashchange", "dashboard", "switched")
    /\ hash = "simulator"
    /\ AppState.currentView = "simulator"
    /\ visible = {"simulator"}
    /\ hashEvents = 0

\* C16: the initial route selects the view the fragment names, and the
\* landing view when the fragment is empty or names no view.
C16_InitialRoute ==
    [][ lastEvent'.type = "route" =>
          /\ lastEvent'.kind = hash
          /\ routed'
          /\ LET v == IF hash \in Views THEN hash ELSE "landing"
             IN  AppState'.currentView = v /\ visible' = {v} /\ activeNav' = {v} ]_vars

\* The page was loaded at a fragment naming no view and shows the landing
\* view.
C16_Witness ==
    /\ lastEvent = Event("route", "about", "")
    /\ AppState.currentView = "landing"
    /\ visible = {"landing"}

\* ---------------------------------------------------------------------------
\* Properties of the dashboard
\* ---------------------------------------------------------------------------

\* C17: every invocation of init issues its three fetches together; the step
\* in which an answer fails stores no data, renders no KPI, chart or list,
\* does not mark the dashboard loaded and shows an error; and data is stored
\* only by an invocation whose three fetches all succeeded.
C17_InitFailsTogether ==
    /\ [][ BagCardinality(inits') > BagCardinality(inits) =>
             inits' = inits (+) SetToBag({Fetching}) ]_vars
    /\ [][ \A call \in BagToSet(inits), r \in Resources :
             /\ call[r] = "pending" /\ ~Rejected(call)
             /\ inits' = Remove(inits, call) (+) SetToBag({[ call EXCEPT ![r] = "failed" ]})
             => /\ UNCHANGED << Dashboard, kpis, departmentList, titles >>
                /\ dashboardError' # ""
                /\ ~dashboardLoading' ]_vars
    /\ [][ Dashboard'.data # Dashboard.data /\ lastEvent'.type = "initResponse" =>
             \E call \in BagToSet(inits') : \A r \in Resources : call[r] = "ok" ]_vars

\* The history fetch failed after the national figures and the department
\* list had arrived: nothing is stored or rendered and the error is shown.
C17_Witness ==
    /\ lastEvent = Event("initResponse", "", "failed")
    /\ [ national |-> "ok", departments |-> "ok", history |-> "failed" ] \in BagToSet(inits)
    /\ Dashboard.data = << >>
    /\ Dashboard.charts = << >>
    /\ ~Dashboard.loaded
    /\ kpis = NoKpis
    /\ departmentList = << >>
    /\ dashboardError # ""

\* C18: whenever the dashboard holds data and no filter is in flight, the
\* stored historical series is the one of the selected department.
C18_HistoryMatchesSelection ==
    Dashboard.data # << >> /\ filters = << >> =>
       Dashboard.data[1].history.department_code = Dashboard.selectedDepartment

\* C19: the step in which the history fetch of a filter fails restores the
\* selection the filter replaced, keeps series, KPIs, charts and list,
\* shows an error and restores interaction.
C19_FailedFilterKeepsSelection ==
    [][ lastEvent'.type = "filterResponse" /\ lastEvent'.outcome = "failed" =>
          \E i \in DOMAIN filters :
             /\ Dashboard'.selectedDepartment = filters[i].from
             /\ Dashboard'.data = Dashboard.data
             /\ Dashboard'.charts = Dashboard.charts
             /\ UNCHANGED << kpis, departmentList >>
             /\ dashboardError' # ""
             /\ interactive' ]_vars

\* The values five KPI cards show for the national figures and the
\* department list: 5.1 %, down 0.3, 9,000,000 students, 85.3 %, 2 high-risk.
NationalKpiValues ==
    [ dropout  |-> << "asIs", 510 >>,
      change   |-> [ icon |-> "down", amount |-> 3 ],
      students |-> << 9, 0, 0 >>,
      funnel   |-> 853,
      risk     |-> "2" ]

KpiValues(k) ==
    [ dropout |-> k.dropout, change |-> k.change, students |-> k.students,
      funnel |-> k.funnel, risk |-> k.risk ]

\* C20: a successful filterByDepartment(null) leaves the KPI values at those
\* of the national data, whatever department was filtered before; so do the
\* KPI values right after a successful init.
C20_NationalKpisRestored ==
    [][ \/ lastEvent' = Event("filterResponse", Null, "ok")
        \/ lastEvent' = Event("initResponse", "", "rendered")
        => KpiValues(kpis') = NationalKpiValues ]_vars

\* A department had been filtered (the fourth card still carries the
\* department label) and the filter back to the nation has succeeded.
C20_Witness ==
    /\ lastEvent = Event("filterResponse", Null, "ok")
    /\ kpis.riskLabel = "departmentCode"
    /\ KpiValues(kpis) = NationalKpiValues
    /\ Dashboard.selectedDepartment = Null

\* The cost of the levels held: the sum over the kinds of cost times level.
RECURSIVE CostOfLevels(_, _)
CostOfLevels(inv, kinds) ==
    IF kinds = {} THEN 0
    ELSE LET k == CHOOSE kk \in kinds : TRUE
         IN  dataCost(k) * inv[k] + CostOfLevels(inv, kinds \ {k})

\* C33: the budget is conserved: in every state the budget plus the cost
\* of the levels held is the default budget of 10000.
C33_BudgetConserved == budget + CostOfLevels(investments, Kinds) = DefaultBudget

\* C34: every scenario request in flight names the municipality of the
\* baseline its adjustments were derived from, and the current prediction
\* is for that municipality too.
C34_RequestsForLoadedMunicipality ==
    /\ \A req \in BagToSet(pending) :
          req.op = "predict" =>
              /\ baseline # << >>
              /\ req.municipality_name = baseline[1].municipality_name
    /\ (baseline # << >> /\ currentPrediction # << >>) =>
          currentPrediction[1].municipality_name = baseline[1].municipality_name

\* ---------------------------------------------------------------------------
\* Properties of the ready dashboard
\* ---------------------------------------------------------------------------

\* The place of department d in list (codes are distinct within a list).
Pos(list, d) == CHOOSE i \in DOMAIN list : list[i] = d

\* C21: the department list is rendered in descending order of
\* dropout_rate, departments with equal rates keep the order in which the
\* service sent them, and the stored list is not reordered by rendering:
\* the items are the stored departments, each once, and no step of a filter
\* or of init on a ready dashboard changes the stored list.
C21_ListSortedStable ==
    /\ [](departmentList # << >> =>
            LET items  == departmentList[1].items
                stored == Dashboard.data[1].departments
            IN  /\ Len(items) = Len(stored)
                /\ { items[i] : i \in DOMAIN items } = { stored[i] : i \in DOMAIN stored }
                /\ \A i, j \in DOMAIN items :
                      i < j =>
                        /\ items[i].dropout_rate >= items[j].dropout_rate
                        /\ items[i].dropout_rate = items[j].dropout_rate
                              => Pos(stored, items[i]) < Pos(stored, items[j]))
    /\ [][lastEvent'.type \in {"filter", "filterResponse", "init"}
            => Dashboard'.data[1].departments = Dashboard.data[1].departments]_vars

\* A list with two departments of equal rate after one of a lower rate has
\* been rendered again by a filter, the stored list still as sent.
C21_Witness ==
    /\ lastEvent.type = "filterResponse" /\ lastEvent.outcome = "ok"
    /\ LET items  == departmentList[1].items
           stored == Dashboard.data[1].departments
       IN  /\ Len(stored) = 3
           /\ stored[1].dropout_rate < stored[2].dropout_rate
           /\ stored[2].dropout_rate = stored[3].dropout_rate
           /\ items = << stored[2], stored[3], stored[1] >>

\* C22: whenever the fourth KPI card shows the national figure (from the
\* first render on, and again after a render for the national scope), it
\* is the number of stored departments whose dropout_rate is strictly above
\* 6 (rates are in hundredths of a percent): a rate of exactly 6.00 is not
\* counted.
C22_HighRiskCount ==
    (\/ kpis.riskLabel = "highRisk"
     \/ lastEvent = Event("initResponse", "", "rendered")
     \/ lastEvent = Event("filterResponse", Null, "ok"))
    => LET stored == Dashboard.data[1].departments
       IN  kpis.risk = ToString(Cardinality({ i \in DOMAIN stored :
                                                stored[i].dropout_rate >= 601 }))

\* The national render of a list with two rates of 8.90 and one of exactly
\* 6.00 shows 2.
C22_Witness ==
    /\ lastEvent = Event("filterResponse", Null, "ok")
    /\ kpis.risk = "2"
    /\ LET stored == Dashboard.data[1].departments
       IN  /\ Len(stored) = 3
           /\ \E i \in DOMAIN stored : stored[i].dropout_rate = 600
           /\ Cardinality({ i \in DOMAIN stored : stored[i].dropout_rate = 890 }) = 2

\* C23: a call of init() on a dashboard that is already loaded is a no-op:
\* it issues no fetch and changes nothing of the dashboard, of its part of
\* the document or of the navigation.
C23_InitWhenReadyIsNoOp ==
    [][lastEvent'.type = "init" /\ Dashboard.loaded
         => UNCHANGED << dashVars, navVars >>]_vars

\* init() has been called on a loaded dashboard filtered by a department.
C23_Witness ==
    /\ lastEvent = Event("init", "", "loaded")
    /\ Dashboard.loaded
    /\ Dashboard.selectedDepartment # Null
    /\ titles = Dashboard.selectedDepartment

\* C28: the department selected is null (the national scope) or the code
\* of a department in the department list fetched last.
C28_SelectionInFetchedList ==
    Dashboard.data # << >> =>
        \/ Dashboard.selectedDepartment = Null
        \/ Dashboard.selectedDepartment \in CodesOf(Dashboard.data[1].departments)

\* C29: filterByDepartment marks the dashboard non-interactive before its
\* fetch is issued and restores interaction when the fetch completes,
\* whether it succeeded or failed; no filter starts while the dashboard is
\* non-interactive, so at most one filter request is in flight, and the
\* dashboard is non-interactive exactly while one is.
C29_OneFilterInFlight ==
    /\ [](Len(filters) <= 1)
    /\ [](interactive <=> filters = << >>)
    /\ [][lastEvent'.type = "filter" /\ filters' # filters
           => interactive /\ ~interactive' /\ Len(filters') = Len(filters) + 1]_vars
    /\ [][Len(filters') < Len(filters) => ~interactive /\ interactive']_vars

\* A filter has failed and the dashboard takes clicks again.
C29_Witness ==
    /\ lastEvent = Event("filterResponse", "27", "failed")
    /\ interactive
    /\ filters = << >>
    /\ "dashboard" \in visible

\* C30: filterByDepartment issues exactly one request, the history fetch
\* scoped to the code clicked (with no scope for null), and no fetch of the
\* national figures or of the department list; the series stored on
\* success is the one of that scope, and the stored national figures and
\* department list are left as they were.
C30_FilterFetchesOnlyHistory ==
    /\ [][(lastEvent'.type = "filter" /\ filters' # filters)
           => /\ filters' = Append(filters,
                                   [ code |-> lastEvent'.kind,
                                     from |-> Dashboard.selectedDepartment,
                                     url  |-> << "/analytics/history", lastEvent'.kind >> ])
              /\ inits' = inits]_vars
    /\ [][(lastEvent'.type \in {"filter", "filterResponse"} /\ Dashboard.data # << >>)
           => /\ Dashboard'.data[1].national = Dashboard.data[1].national
              /\ Dashboard'.data[1].departments = Dashboard.data[1].departments
              /\ inits' = inits]_vars
    /\ [](lastEvent.type = "filterResponse" /\ lastEvent.outcome = "ok"
            => Dashboard.data[1].history = HistoricalTrends(lastEvent.kind))

\* The filter by department 05 has succeeded: its one-point series is
\* stored beside the national figures and the department list as fetched.
C30_Witness ==
    /\ lastEvent = Event("filterResponse", "05", "ok")
    /\ Dashboard.data[1].history = HistoricalTrends("05")
    /\ Dashboard.data[1].national = NationalStats
    /\ Dashboard.data[1].departments = DepartmentStats
    /\ BagCardinality(inits) = 1

\* ---------------------------------------------------------------------------
\* Properties of failures
\* ---------------------------------------------------------------------------

\* C24: after a failed initialisation the dashboard shows its error and no
\* chart, and entering the dashboard view again retries: a click on the
\* dashboard nav item, made while the error is shown, nothing is loaded and
\* no initialisation is still waiting, issues the three-way fetch again.
C24_RetryAfterFailedInit ==
    /\ [](dashboardError # "" /\ ~Dashboard.loaded => Dashboard.charts = << >>)
    /\ [][(/\ lastEvent' = Event("click", "dashboard", "")
            /\ lastEvent.type # "click"
            /\ dashboardError # ""
            /\ ~Dashboard.loaded
            /\ (\A call \in BagToSet(inits) : Rejected(call)))
           => BagCardinality(inits') = BagCardinality(inits) + 1]_vars

\* A step in which a request of the dashboard failed.
DashboardRequestFailed ==
    lastEvent' \in { Event("initResponse", "", "failed"),
                     Event("filterResponse", "27", "failed") }

\* A step in which a request of the simulator failed: the health check or
\* the department list of initSimulator, or a prediction request.
SimulatorRequestFailed ==
    \/ simInit = "loading" /\ simInit' \in {"failed", "noDepartments"}
    \/ pending' # pending
         /\ lastEvent' \in { Event("response", op, "failed") :
                                op \in {"load", "reload", "predict"} }

\* C25: the simulator and the dashboard fail independently.  A failed
\* dashboard request changes nothing of the simulator; a failed simulator
\* request changes nothing of the dashboard or of the navigation, and does
\* not stand in the way of the dashboard: after a failed initSimulator the
\* initial route, which initialises the dashboard when the page is loaded
\* at #dashboard, can still be taken.
C25_IndependentFailureDomains ==
    /\ [][DashboardRequestFailed => UNCHANGED simVars]_vars
    /\ [][SimulatorRequestFailed => UNCHANGED << dashVars, navVars >>]_vars
    /\ []((simInit \in {"failed", "noDepartments"} /\ ~routed
              /\ hashEvents = 0 /\ inits = EmptyBag)
            => ENABLED initialRoute)

\* Both domains have failed (a baseline load and a department filter), the
\* simulator's state is as loaded, and a later department filter has
\* succeeded while the simulator's error is still shown.
C25_Witness ==
    /\ errorMessage = "Error al cargar datos"
    /\ dashboardError = "Error loading department data"
    /\ budget = DefaultBudget /\ baseline = << >>
    /\ Dashboard.loaded
    /\ lastEvent = Event("filterResponse", "27", "ok")
    /\ Dashboard.data[1].history = HistoricalTrends("27")

\* C26: every failed request shows an error message in its part of the
\* page, and a message shown stays: the simulator's is hidden only by the
\* user starting a new load (the load button or reset), the dashboard's is
\* only ever replaced by the message of another failure.  No timer hides a
\* message: the only timer of the page is started by the insufficient
\* budget notice of handleInvestment, which is never shown.
C26_FailuresAreShown ==
    /\ [][SimulatorRequestFailed => errorMessage' # ""]_vars
    /\ [][DashboardRequestFailed => dashboardError' # ""]_vars
    /\ [][(errorMessage # "" /\ errorMessage' = "")
           => /\ requestsIssued' = requestsIssued + 1
              /\ \E req \in BagToSet(pending') :
                    req.latest /\ req.op \in {"load", "reload"}]_vars
    /\ [][dashboardError # ""
           => dashboardError' = dashboardError \/ DashboardRequestFailed]_vars
    /\ [](lastEvent.type = "invest" => lastEvent.outcome # "rejected")

\* A prediction request and the initialisation of the dashboard have
\* failed, and both messages are still shown after a later click.
C26_Witness ==
    /\ errorMessage = "Error al actualizar prediccion"
    /\ baseline # << >>
    /\ dashboardError = "Error loading analytics data"
    /\ ~Dashboard.loaded
    /\ lastEvent = Event("click", "dashboard", "")

\* C35: AppState.dashboardLoaded is true only when the dashboard is ready,
\* that is Dashboard.loaded is true and the three resources are stored.
C35_LoadedFlagMeansReady ==
    AppState.dashboardLoaded => Dashboard.loaded /\ Dashboard.data # << >>

\* ---------------------------------------------------------------------------
\* Properties of the API client
\* ---------------------------------------------------------------------------

\* The resource an error message names, "" when it names none.
ResourceNamed(message) ==
    IF message = "Failed to fetch national analytics" THEN "/analytics/national"
    ELSE IF message = "Failed to fetch department analytics" THEN "/analytics/departments"
    ELSE IF message = "Failed to fetch historical trends" THEN "/analytics/history"
    ELSE ""

\* C27: an analytics operation that meets a response that is not 2xx, or
\* no response at all, is rejected with an error whose message names the
\* resource it attempted; otherwise it is fulfilled with the whole body the
\* service sent for that resource.
C27_AnalyticsFailuresNameResource ==
    (lastEvent.type = "api" /\ lastEvent.kind.operation \in AnalyticsOperations) =>
        LET call   == lastEvent.kind
            result == lastEvent.outcome
            url    == ApiUrl(call.operation, call.departmentCode)
        IN  IF call.response = NoResponse \/ call.response.status \notin 200..299
            THEN result.rejected /\ ResourceNamed(result.message) = url[1]
            ELSE ~result.rejected /\ result.value = Served(url)

\* ---------------------------------------------------------------------------
\* Properties of the KPI cards
\* ---------------------------------------------------------------------------

\* C31: after a successful filter by a department, the cards show the
\* figures of the last point of the fetched series, the change shown is the
\* last dropout_rate minus the one before it, and with fewer than two
\* points no change is shown.
C31_DepartmentKpisFromSeries ==
    (lastEvent.type = "filterResponse" /\ lastEvent.outcome = "ok" /\ lastEvent.kind # Null)
    => LET points == HistoricalTrends(lastEvent.kind).data
           n      == Len(points)
       IN  /\ n > 0 => /\ kpis.dropout = << "toFixed2", points[n].dropout_rate >>
                       /\ kpis.students = formatNumber(points[n].students)
                       /\ kpis.funnel = FunnelText(points[n].funnel_ratio)
           /\ n > 1 => kpis.change =
                          ChangeText(points[n].dropout_rate - points[n - 1].dropout_rate)
           /\ n < 2 => kpis.change = << >>

\* ---------------------------------------------------------------------------
\* Properties of the error messages
\* ---------------------------------------------------------------------------

\* C32: whatever the operation, when the service answers with a status
\* that is not 2xx and a body carrying a detail, the text shown to the user
\* carries that detail.
C32_DetailSurfaced ==
    (/\ lastEvent.type = "api"
     /\ lastEvent.kind.response # NoResponse
     /\ lastEvent.kind.response.status \notin 200..299
     /\ lastEvent.kind.response.detail # "")
    => Surfaced(lastEvent.kind.operation, lastEvent.kind.departmentCode,
                lastEvent.outcome)[2] = lastEvent.kind.response.detail

\* ---------------------------------------------------------------------------
\* Properties of the language
\* ---------------------------------------------------------------------------

\* C36: a language change made while a department is selected and its
\* KPIs are shown leaves the cards those of the department, and leaves the
\* selection, the stored history series and the data of the charts as they
\* were.
C36_LanguageKeepsScope ==
    [][(/\ lastEvent'.type = "switchLanguage"
        /\ lastEvent'.outcome = "languageChanged"
        /\ Dashboard.loaded
        /\ Dashboard.selectedDepartment # Null
        /\ filters = << >>
        /\ kpis.risk = Dashboard.selectedDepartment)
       => /\ kpis' = kpis
          /\ Dashboard' = Dashboard]_vars

\* C40: the current language is always a supported one, and a call of
\* switchLanguage with an unsupported code changes neither the current
\* language nor the persisted preference and dispatches no languageChanged.
C40_LanguageSupported ==
    /\ [](currentLanguage \in SupportedLanguages)
    /\ [][(lastEvent'.type = "switchLanguage" /\ ~Translated(lastEvent'.kind))
          => /\ UNCHANGED << langVars, kpis, departmentList >>
             /\ lastEvent'.outcome # "languageChanged"]_vars

\* ---------------------------------------------------------------------------
\* Properties of the hashchange feedback
\* ---------------------------------------------------------------------------

\* C37: a switch made by a click or by the initial route queues at most
\* one hashchange event; the handler of an event takes it off the queue
\* and queues none, leaves the fragment as it is, and the switchView it
\* makes goes to the view the fragment names; when that view is already
\* the current one, displayed alone and alone active, the navigation is
\* left as it was.
C37_HashFeedbackTerminates ==
    [][/\ lastEvent'.type \in {"click", "route"} => hashEvents' <= hashEvents + 1
       /\ lastEvent'.type = "hashchange"
          => /\ hashEvents' = hashEvents - 1
             /\ hash' = hash
             /\ lastEvent'.outcome = "switched" => AppState'.currentView = hash
             /\ (/\ hash = AppState.currentView
                 /\ visible = {hash}
                 /\ activeNav = {hash})
                => UNCHANGED << AppState, visible, activeNav, routed >>]_vars

\* The handler has run after a click switched to the dashboard: no event
\* is queued any more.
C37_Witness ==
    /\ lastEvent = Event("hashchange", "dashboard", "switched")
    /\ hashEvents = 0
    /\ hash = "dashboard"
    /\ AppState.currentView = "dashboard"
    /\ visible = {"dashboard"}

\* ---------------------------------------------------------------------------
\* Properties of the risk levels
\* ---------------------------------------------------------------------------

\* C38: while the fourth card shows the national count, the count is the
\* number of departments whose item in the list is labelled High, a rate
\* of exactly 3.00 being Medium and one of exactly 6.00 being High.
C38_CountMatchesHighLabels ==
    (/\ Dashboard.loaded
     /\ departmentList # << >>
     /\ kpis.riskLabel = "highRisk")
    => /\ getRiskLabel(300, currentLanguage) = RiskLabels[currentLanguage].medium
       /\ getRiskLabel(600, currentLanguage) = RiskLabels[currentLanguage].high
       /\ kpis.risk =
            ToString(Cardinality(
               { i \in DOMAIN departmentList[1].items :
                    getRiskLabel(departmentList[1].items[i].dropout_rate, currentLanguage)
                       = RiskLabels[currentLanguage].high }))

\* C39: the fourth card is labelled as the count of high-risk departments
\* and shows that count whenever the national scope is selected and shown,
\* and is labelled as the department code and shows the code whenever a
\* department is selected and shown.
C39_RiskCardLabelMatches ==
    (Dashboard.loaded /\ filters = << >> /\ lastEvent.type = "filterResponse"
       /\ lastEvent.outcome = "ok")
    => IF Dashboard.selectedDepartment = Null
       THEN /\ kpis.riskLabel = "highRisk"
            /\ kpis.risk = ToString(Cardinality(
                              { i \in DOMAIN Dashboard.data[1].departments :
                                   HighRisk(Dashboard.data[1].departments[i]) }))
       ELSE /\ kpis.riskLabel = "departmentCode"
            /\ kpis.risk = Dashboard.selectedDepartment

====
